---- MODULE Spec2Model ----
(***************************************************************************)
(* TRIEST streaming triangle estimators (homework3): the reservoir         *)
(* sampler (ReservoirSampling.py) and the two estimators built on it      *)
(* (TriestBase.py, TriestImpr.py).                                         *)
(*                                                                         *)
(* One behaviour is one estimator object: its variant and capacity M are   *)
(* fixed by the constructor, every step is one process_edge call.          *)
(*                                                                         *)
(* Numbers.  TriestBase keeps integer counters.  TriestImpr keeps float    *)
(* counters that are sums of weights eta = (t-1)(t-2) / (M(M-1)); the      *)
(* model keeps them exactly, as integers counted in units of 1/Unit with   *)
(* Unit = M(M-1) (floating-point rounding is not modelled).                *)
(***************************************************************************)
EXTENDS Integers, Sequences, FiniteSets

\* ---------------------------------------------------------------- bounds
NumVertices == 4    \* vertex ids are 1..NumVertices
StreamVertices == 3 \* the streams of Spec use the vertices 1..StreamVertices
MaxM == 3           \* largest capacity a constructor is given
MaxCalls == 4       \* longest stream fed to one estimator

Vertices == 1..NumVertices
\* The constructors take any integer: nothing validates memory_size.
Capacities == (0 - 1)..MaxM
\* process_edge takes any two vertex ids, equal or not, in either order.  The
\* streams of Spec are drawn from every pair u < v of the first StreamVertices
\* vertices, the reversed pair (2, 1) and the self-loop on the last of them; an
\* edge may be fed any number of times.
Edges == {e \in (1..StreamVertices) \X (1..StreamVertices) :
            e[1] < e[2] \/ e = <<2, 1>> \/ e = <<StreamVertices, StreamVertices>>}
\* The streams of SpecDistinct are drawn from the loop-free edges of all the
\* vertices, each undirected edge fed at most once.
DistinctEdges == {e \in Vertices \X Vertices : e[1] < e[2]}
\* Python's None, as returned for "nothing removed".
None == <<>>

VARIABLES
    variant,           \* "base" (TriestBase) or "impr" (TriestImpr)
    M,                 \* self.M / reservoir.M
    sample,            \* reservoir.sample, a list of (u, v) tuples
    t,                 \* reservoir.t
    adj,               \* self.adj: vertex -> set of neighbours ({} = key absent)
    global_triangles,  \* self.global_triangles, in units of 1/Unit
    local_triangles,   \* self.local_triangles, in units of 1/Unit (0 = key absent)
    calls,             \* history: number of process_edge calls made
    seen,              \* history: the undirected edges passed to process_edge
    stream,            \* history: the (u, v) passed to process_edge, in order
    last               \* history: the last call, its add_item result and its error

vars == <<variant, M, sample, t, adj, global_triangles, local_triangles,
          calls, seen, stream, last>>

\* ------------------------------------------------------ ReservoirSampling
\* add_item: the set of results the random draws allow.  Each result is the
\* reservoir after the call together with the returned (added, removed_item).
\* random.random() lies in [0, 1): the test random() < M/t can succeed iff
\* M/t > 0 and can fail iff M/t < 1.
add_item_append(smp, tt, m, item) ==
    LET t1 == tt + 1 IN
    IF Len(smp) < m
    THEN {[sample |-> Append(smp, item), t |-> t1, added |-> TRUE, removed |-> None]}
    ELSE {[sample |-> Append(smp, item), t |-> t1, added |-> TRUE,
           removed |-> smp[idx + 1]] : idx \in (IF m > 0 THEN 0..(m - 1) ELSE {})}
         \cup (IF m < t1
               THEN {[sample |-> smp, t |-> t1, added |-> FALSE, removed |-> None]}
               ELSE {})

add_item(smp, tt, m, item) ==
    LET t1 == tt + 1 IN
    IF Len(smp) < m
    THEN {[sample |-> Append(smp, item), t |-> t1, added |-> TRUE, removed |-> None]}
    ELSE {[sample |-> [smp EXCEPT ![idx + 1] = item], t |-> t1, added |-> TRUE,
           removed |-> smp[idx + 1]] : idx \in (IF m > 0 THEN 0..(m - 1) ELSE {})}
         \cup (IF m < t1
               THEN {[sample |-> smp, t |-> t1, added |-> FALSE, removed |-> None]}
               ELSE {})

\* ------------------------------------------------- shared estimator parts
\* get_common_neighbors: adj[u] & adj[v] when both keys exist, else set().
get_common_neighbors(a, u, v) ==
    IF a[u] # {} /\ a[v] # {} THEN a[u] \cap a[v] ELSE {}

\* The removal block of process_edge: discard both directions, then delete
\* the keys left empty (an empty set here is an absent key).
remove_from_adj(a, ru, rv) ==
    LET a1 == [a EXCEPT ![ru] = @ \ {rv}] IN [a1 EXCEPT ![rv] = @ \ {ru}]

\* The addition block of process_edge: adj[u].add(v); adj[v].add(u).
add_to_adj(a, u, v) ==
    LET a1 == [a EXCEPT ![u] = @ \cup {v}] IN [a1 EXCEPT ![v] = @ \cup {u}]

\* The counter loop shared by update_counters and TriestImpr.process_edge:
\* for each c in common, global += d, local[u] += d, local[v] += d,
\* local[c] += d.  The additions are sequential, so they accumulate when
\* u, v and c are not distinct.
bump_counters_no_third(g, l, common, u, v, d) ==
    LET k == Cardinality(common) IN
    [global |-> g + d * k,
     local  |-> [x \in Vertices |->
                   l[x] + d * ( (IF x = u THEN k ELSE 0)
                              + (IF x = v THEN k ELSE 0) )]]

bump_counters(g, l, common, u, v, d) ==
    LET k == Cardinality(common) IN
    [global |-> g + d * k,
     local  |-> [x \in Vertices |->
                   l[x] + d * ( (IF x = u THEN k ELSE 0)
                              + (IF x = v THEN k ELSE 0)
                              + (IF x \in common THEN 1 ELSE 0) )]]

\* -------------------------------------------------------------- TriestBase
\* update_counters(u, v, is_addition) on the adjacency a.
update_counters(a, g, l, u, v, is_addition) ==
    bump_counters(g, l, get_common_neighbors(a, u, v), u, v,
                  IF is_addition THEN 1 ELSE 0 - 1)

\* "if removed_item:" block: decrement on the adjacency that still holds the
\* edge, then remove it.
TriestBase_evict_keep_counters(a, g, l, ru, rv) ==
    [adj |-> remove_from_adj(a, ru, rv), global |-> g, local |-> l]

TriestBase_evict(a, g, l, ru, rv) ==
    LET c == update_counters(a, g, l, ru, rv, FALSE) IN
    [adj |-> remove_from_adj(a, ru, rv), global |-> c.global, local |-> c.local]

\* "if added:" block: increment on the adjacency that does not hold the edge
\* yet, then add it.
TriestBase_admit(a, g, l, u, v) ==
    LET c == update_counters(a, g, l, u, v, TRUE) IN
    [adj |-> add_to_adj(a, u, v), global |-> c.global, local |-> c.local]

\* process_edge lines 45-72 applied to a reservoir result r.
TriestBase_apply_always_admit(a, g, l, u, v, r) ==
    LET s0 == [adj |-> a, global |-> g, local |-> l]
        s1 == IF r.removed # None
              THEN TriestBase_evict(a, g, l, r.removed[1], r.removed[2])
              ELSE s0
    IN  TriestBase_admit(s1.adj, s1.global, s1.local, u, v)

TriestBase_apply(a, g, l, u, v, r) ==
    LET s0 == [adj |-> a, global |-> g, local |-> l]
        s1 == IF r.removed # None
              THEN TriestBase_evict(a, g, l, r.removed[1], r.removed[2])
              ELSE s0
    IN  IF r.added THEN TriestBase_admit(s1.adj, s1.global, s1.local, u, v) ELSE s1

\* get_estimation: a number num/den.  kind is "value" for every return
\* statement of the method; the method has no other way to end.
TriestBase_xi_wrong(tt, m) ==
    [num |-> tt * (tt - 1) * (tt - 1), den |-> m * (m - 1) * (m - 2)]

TriestBase_xi(tt, m) ==
    [num |-> tt * (tt - 1) * (tt - 2), den |-> m * (m - 1) * (m - 2)]

TriestBase_estimate(g, tt, m) ==
    IF tt <= m THEN [kind |-> "value", num |-> g, den |-> 1]
    ELSE IF m < 3 THEN [kind |-> "value", num |-> 0, den |-> 1]
    ELSE LET xi == TriestBase_xi(tt, m) IN
         [kind |-> "value", num |-> xi.num * g, den |-> xi.den]

TriestBase_get_estimation == TriestBase_estimate(global_triangles, t, M)

\* -------------------------------------------------------------- TriestImpr
\* The denominator M(M-1) of eta; counters are counted in units of 1/Unit.
UnitOf(m) == IF m * (m - 1) > 0 THEN m * (m - 1) ELSE 1
Unit == IF variant = "impr" THEN UnitOf(M) ELSE 1

\* The division in "eta = ((t-1)*(t-2)) / (M*(M-1))" raises ZeroDivisionError.
eta_raises(t1, m) == t1 > m /\ m * (m - 1) = 0

\* eta in units of 1/(m(m-1)): 1.0 while t1 <= m, else max(1.0, quotient).
eta_unfloored(t1, m) == (t1 - 1) * (t1 - 2)

eta(t1, m) ==
    LET one == UnitOf(m)
        q   == (t1 - 1) * (t1 - 2)
    IN  IF t1 <= m THEN one ELSE IF q > one THEN q ELSE one

\* "if removed_item:" block of TriestImpr: adjacency only, counters untouched.
TriestImpr_evict_decrement(a, g, l, ru, rv) ==
    LET c == bump_counters(g, l, get_common_neighbors(a, ru, rv), ru, rv, 0 - 1) IN
    [adj |-> remove_from_adj(a, ru, rv), global |-> c.global, local |-> c.local]

TriestImpr_evict(a, g, l, ru, rv) ==
    [adj |-> remove_from_adj(a, ru, rv), global |-> g, local |-> l]

\* process_edge lines 42-66 applied to a reservoir result r, the weighted
\* update first, on the adjacency as it is before the reservoir is consulted.
TriestImpr_apply(a, g, l, u, v, w, r) ==
    LET c  == bump_counters(g, l, get_common_neighbors(a, u, v), u, v, w)
        s0 == [adj |-> a, global |-> c.global, local |-> c.local]
        s1 == IF r.removed # None
              THEN TriestImpr_evict(a, c.global, c.local, r.removed[1], r.removed[2])
              ELSE s0
    IN  IF r.added THEN [s1 EXCEPT !.adj = add_to_adj(s1.adj, u, v)] ELSE s1

\* get_estimation: the counter itself, global_triangles / Unit.
TriestImpr_estimate(g, m) == [kind |-> "value", num |-> g, den |-> UnitOf(m)]

TriestImpr_get_estimation == TriestImpr_estimate(global_triangles, M)

get_estimation ==
    IF variant = "base" THEN TriestBase_get_estimation ELSE TriestImpr_get_estimation

\* ------------------------------------------------- an estimator as a value
\* The fields of a freshly constructed estimator.
NewEstimator ==
    [sample |-> <<>>, t |-> 0, adj |-> [x \in Vertices |-> {}],
     global |-> 0, local |-> [x \in Vertices |-> 0]]

\* The estimator TriestBase(m) after process_edge on each edge of str in turn.
\* Used for streams no longer than m, where add_item has exactly one result
\* (it appends), so the CHOOSE picks that result.
RECURSIVE TriestBase_run(_, _)
TriestBase_run(str, m) ==
    IF str = <<>> THEN NewEstimator
    ELSE LET p == TriestBase_run(SubSeq(str, 1, Len(str) - 1), m)
             e == str[Len(str)]
             r == CHOOSE x \in add_item(p.sample, p.t, m, e) : TRUE
             s == TriestBase_apply(p.adj, p.global, p.local, e[1], e[2], r)
         IN  [sample |-> r.sample, t |-> r.t, adj |-> s.adj,
              global |-> s.global, local |-> s.local]

\* The same for TriestImpr(m); a call that raises leaves the estimator as it was.
RECURSIVE TriestImpr_run(_, _)
TriestImpr_run(str, m) ==
    IF str = <<>> THEN NewEstimator
    ELSE LET p == TriestImpr_run(SubSeq(str, 1, Len(str) - 1), m)
             e == str[Len(str)]
             r == CHOOSE x \in add_item(p.sample, p.t, m, e) : TRUE
             s == TriestImpr_apply(p.adj, p.global, p.local, e[1], e[2],
                                   eta(p.t + 1, m), r)
         IN  IF eta_raises(p.t + 1, m) THEN p
             ELSE [sample |-> r.sample, t |-> r.t, adj |-> s.adj,
                   global |-> s.global, local |-> s.local]

\* ------------------------------------------------------------ state machine
\* The state right after TriestBase(M) / TriestImpr(M).
Init ==
    /\ variant \in {"base", "impr"}
    /\ M \in Capacities
    /\ sample = <<>>
    /\ t = 0
    /\ adj = [x \in Vertices |-> {}]
    /\ global_triangles = 0
    /\ local_triangles = [x \in Vertices |-> 0]
    /\ calls = 0
    /\ seen = {}
    /\ stream = <<>>
    /\ last = [u |-> 0, v |-> 0, added |-> FALSE, removed |-> None, error |-> "none"]

TriestBase_process_edge(u, v) ==
    /\ variant = "base"
    /\ calls < MaxCalls
    /\ \E r \in add_item(sample, t, M, <<u, v>>) :
         LET s == TriestBase_apply(adj, global_triangles, local_triangles, u, v, r) IN
         /\ sample' = r.sample
         /\ t' = r.t
         /\ adj' = s.adj
         /\ global_triangles' = s.global
         /\ local_triangles' = s.local
         /\ last' = [u |-> u, v |-> v, added |-> r.added, removed |-> r.removed,
                     error |-> "none"]
    /\ calls' = calls + 1
    /\ seen' = seen \cup {{u, v}}
    /\ stream' = Append(stream, <<u, v>>)
    /\ UNCHANGED <<variant, M>>

TriestImpr_process_edge(u, v) ==
    /\ variant = "impr"
    /\ calls < MaxCalls
    /\ \/ /\ eta_raises(t + 1, M)
          /\ last' = [u |-> u, v |-> v, added |-> FALSE, removed |-> None,
                      error |-> "ZeroDivisionError"]
          /\ UNCHANGED <<sample, t, adj, global_triangles, local_triangles>>
       \/ /\ ~eta_raises(t + 1, M)
          /\ \E r \in add_item(sample, t, M, <<u, v>>) :
               LET s == TriestImpr_apply(adj, global_triangles, local_triangles,
                                         u, v, eta(t + 1, M), r) IN
               /\ sample' = r.sample
               /\ t' = r.t
               /\ adj' = s.adj
               /\ global_triangles' = s.global
               /\ local_triangles' = s.local
               /\ last' = [u |-> u, v |-> v, added |-> r.added, removed |-> r.removed,
                           error |-> "none"]
    /\ calls' = calls + 1
    /\ seen' = seen \cup {{u, v}}
    /\ stream' = Append(stream, <<u, v>>)
    /\ UNCHANGED <<variant, M>>

Next ==
    \/ \E e \in Edges : TriestBase_process_edge(e[1], e[2])
    \/ \E e \in Edges : TriestImpr_process_edge(e[1], e[2])

Spec == Init /\ [][Next]_vars

\* A base estimator fed a stream of pairwise-distinct, loop-free undirected
\* edges: no {u, v} is passed twice, in either order.
InitDistinct == Init /\ variant = "base"

TriestBase_process_new_edge(u, v) ==
    /\ {u, v} \notin seen
    /\ TriestBase_process_edge(u, v)

NextDistinct == \E e \in DistinctEdges : TriestBase_process_new_edge(e[1], e[2])

SpecDistinct == InitDistinct /\ [][NextDistinct]_vars

\* ------------------------------------------------------------ definitions
\* used by the properties below
Min(a, b) == IF a <= b THEN a ELSE b

\* Number of triangles of the simple undirected graph whose edge set is G
\* (a set of sets {u, v}; a self-loop {u} closes no triangle).
Triangles(G) ==
    Cardinality({T \in SUBSET Vertices :
                   /\ Cardinality(T) = 3
                   /\ \A a \in T : \A b \in T : a # b => {a, b} \in G})

\* The step is a process_edge call (every call, failed or not, counts).
IsCall == calls' = calls + 1

\* ------------------------------------------------------------------- C1
\* C1: after any sequence of process_edge calls, adj mirrors the sample S:
\* every edge (u, v) of S has v in adj[u] and u in adj[v], and every
\* neighbour entry of adj is an edge of S (in one of its two orders).
C1_AdjacencyMirrorsSample ==
    /\ \A i \in 1..Len(sample) :
         /\ sample[i][2] \in adj[sample[i][1]]
         /\ sample[i][1] \in adj[sample[i][2]]
    /\ \A x \in Vertices : \A y \in adj[x] :
         \E i \in 1..Len(sample) : sample[i] \in {<<x, y>>, <<y, x>>}

\* ------------------------------------------------------------------- C2
\* C2: in the base estimator, while t <= M, get_estimation() is the exact
\* number of triangles of the graph formed by all edges seen so far.
C2_BaseExactWhileUnsaturated ==
    (variant = "base" /\ t <= M) =>
        /\ TriestBase_get_estimation.kind = "value"
        /\ TriestBase_get_estimation.num
             = Triangles(seen) * TriestBase_get_estimation.den

\* ------------------------------------------------------------------- C3
\* C3: for a reservoir of positive capacity M, before and after every call
\* the sample size is min(t, M), and a full sample stays at size M.
C3_SampleSize ==
    [][ M > 0 =>
          /\ Len(sample) = Min(t, M)
          /\ Len(sample') = Min(t', M)
          /\ (Len(sample) = M => Len(sample') = M) ]_vars

\* A full reservoir of positive capacity has just replaced an edge.
C3_Witness ==
    M > 0 /\ t > M /\ last.removed # None /\ Len(sample) = M

\* ------------------------------------------------------------------- C4
\* C4: when a base process_edge call evicts (u', v'), the eviction lowers
\* the global counter by k, the number of common neighbours of u' and v' in
\* the adjacency taken after (u', v') is removed, lowers the local counters
\* of u' and of v' by k, and that of each such common neighbour by 1.
C4_EvictionDecrement ==
    [][ (variant = "base" /\ IsCall /\ last'.removed # None) =>
          LET ru  == last'.removed[1]
              rv  == last'.removed[2]
              mid == TriestBase_evict(adj, global_triangles, local_triangles, ru, rv)
              cn  == get_common_neighbors(mid.adj, ru, rv)
              k   == Cardinality(cn)
          IN  /\ mid.global = global_triangles - k
              /\ \A x \in Vertices :
                   mid.local[x] = local_triangles[x]
                                  - ( (IF x = ru THEN k ELSE 0)
                                    + (IF x = rv THEN k ELSE 0)
                                    + (IF x \in cn THEN 1 ELSE 0) ) ]_vars

\* ------------------------------------------------------------------- C5
\* C5: in the improved estimator no process_edge call lowers the global
\* counter, whatever the reservoir decides.
C5_ImprGlobalMonotone ==
    [][ variant = "impr" => global_triangles' >= global_triangles ]_vars

\* An improved estimator with a positive counter has just evicted an edge.
C5_Witness ==
    variant = "impr" /\ last.removed # None /\ global_triangles > 0

\* ------------------------------------------------------------------- C6
\* C6: process(u, u) (on an estimator of positive capacity) fails with an
\* invalid-edge error and leaves t, the sample, the adjacency and every
\* counter unchanged.
C6_SelfLoopRejected ==
    [][ (M > 0 /\ IsCall /\ last'.u = last'.v) =>
          /\ last'.error = "InvalidEdge"
          /\ UNCHANGED <<t, sample, adj, global_triangles, local_triangles>> ]_vars

\* ------------------------------------------------------------------- C7
\* C7: in the base estimator with M >= 3, whenever t > M, get_estimation()
\* is global_triangles * t(t-1)(t-2) / (M(M-1)(M-2)).
C7_BaseScaledEstimate ==
    (variant = "base" /\ M >= 3 /\ t > M) =>
        /\ TriestBase_get_estimation.kind = "value"
        /\ TriestBase_get_estimation.num * (M * (M - 1) * (M - 2))
             = global_triangles * t * (t - 1) * (t - 2)
               * TriestBase_get_estimation.den

\* A saturated base estimator that holds a sampled triangle.
C7_Witness ==
    variant = "base" /\ M >= 3 /\ t > M /\ global_triangles > 0

\* ------------------------------------------------------------------- C8
\* C8: a base estimator of capacity M < 3 (a capacity the constructor is
\* meant to accept, M >= 1) queried after t > M reports "estimate
\* unsupported" instead of returning a number.
C8_UnsupportedReported ==
    (variant = "base" /\ M >= 1 /\ M < 3 /\ t > M) =>
        TriestBase_get_estimation.kind = "unsupported"

\* ------------------------------------------------------------------- C9
\* C9: construction with M <= 0 fails, so no reservoir or estimator with a
\* non-positive capacity exists.
C9_CapacityPositive == M > 0

\* ------------------------------------------------------------------ C10
\* C10: every process_edge call with u # v (on an estimator of positive
\* capacity) raises t by exactly 1, so t is the number of such calls made.
C10_EveryCallCountsOnce ==
    [][ (M > 0 /\ IsCall /\ last'.u # last'.v) => t' = t + 1 ]_vars

\* ------------------------------------------------------------------ C11
\* C11: a base and an improved estimator built with the same M and fed the
\* same stream return equal estimates after every prefix of at most M edges
\* (both have t <= M there); with M = 3 and stream (1,2), (2,3), (1,3) both
\* return exactly 1.  The estimator of the behaviour is one of the two; the
\* other is run on the same stream.
C11_SameEstimateWhileUnsaturated ==
    calls <= M =>
        LET b  == TriestBase_run(stream, M)
            i  == TriestImpr_run(stream, M)
            eb == TriestBase_estimate(b.global, b.t, M)
            ei == TriestImpr_estimate(i.global, M)
            me == IF variant = "base" THEN b ELSE i
        IN  /\ me.global = global_triangles /\ me.t = t /\ me.sample = sample
            /\ b.t <= M /\ i.t <= M
            /\ eb.kind = "value" /\ ei.kind = "value"
            /\ eb.num * ei.den = ei.num * eb.den
            /\ (M = 3 /\ stream = << <<1, 2>>, <<2, 3>>, <<1, 3>> >>) =>
                   (eb.num = eb.den /\ ei.num = ei.den)

\* The stream (1,2), (2,3), (1,3) has been fed to an estimator of capacity 3.
C11_Witness ==
    /\ M = 3 /\ t = 3
    /\ stream = << <<1, 2>>, <<2, 3>>, <<1, 3>> >>
    /\ get_estimation.num = get_estimation.den

\* ------------------------------------------------------------------ C12
\* The undirected graph of the edges currently in the sample.
SampleGraph == {{sample[i][1], sample[i][2]} : i \in 1..Len(sample)}

\* Every call so far passed a loop-free edge not passed before, in either order.
DistinctLoopFreeStream ==
    /\ \A e \in seen : Cardinality(e) = 2
    /\ Cardinality(seen) = calls

\* C12: in the base estimator fed pairwise-distinct, loop-free undirected
\* edges, after every process_edge call (evicting or not) the global counter
\* is the exact number of triangles of the graph of the sampled edges.
C12_GlobalIsSampleTriangles ==
    (variant = "base" /\ DistinctLoopFreeStream) =>
        global_triangles = Triangles(SampleGraph)

\* The last call evicted an edge of a counted triangle: the other two edges
\* of the triangle were in the sample before the call and still are.
C12_Witness ==
    /\ variant = "base" /\ DistinctLoopFreeStream /\ last.removed # None
    /\ \E c \in Vertices :
         /\ {last.removed[1], c} \in SampleGraph \ {{last.u, last.v}}
         /\ {last.removed[2], c} \in SampleGraph \ {{last.u, last.v}}

\* ------------------------------------------------------------------ C13
\* C13: every improved process_edge(u, v) call (on an estimator of positive
\* capacity) completes and raises the global counter by exactly eta * k,
\* with k the number of common neighbours of u and v in the adjacency before
\* the call and eta = 1 if t + 1 <= M, else max(1, t(t-1) / (M(M-1))), t
\* being the reservoir count before the call; admitted or not.  Counters are
\* in units of 1/(M(M-1)), so eta is max(M(M-1), t(t-1)) units.
C13_ImprIncrementIsEtaK ==
    [][ (variant = "impr" /\ M > 0 /\ IsCall) =>
          LET k == Cardinality(get_common_neighbors(adj, last'.u, last'.v))
              w == IF t + 1 <= M THEN UnitOf(M)
                   ELSE IF t * (t - 1) > UnitOf(M) THEN t * (t - 1) ELSE UnitOf(M)
          IN  /\ last'.error = "none"
              /\ global_triangles' = global_triangles + w * k ]_vars

\* ------------------------------------------------------------------ C14
\* C14: a base process_edge call whose edge the reservoir does not admit
\* leaves the sample, the adjacency, the global counter and the local
\* counters unchanged; only t changes (by one).
C14_SkipChangesOnlyT ==
    [][ (variant = "base" /\ IsCall /\ ~last'.added) =>
          /\ UNCHANGED <<sample, adj, global_triangles, local_triangles>>
          /\ t' = t + 1 ]_vars

\* A full base reservoir that holds a counted triangle has just rejected an edge.
C14_Witness ==
    /\ variant = "base" /\ M > 0 /\ Len(sample) = M /\ calls > 0
    /\ ~last.added /\ global_triangles > 0

\* ------------------------------------------------------------------ C15
\* C15: in the base estimator the global counter and every local counter are
\* >= 0 after any sequence of process_edge calls.
C15_BaseCountersNonNegative ==
    variant = "base" =>
        /\ global_triangles >= 0
        /\ \A x \in Vertices : local_triangles[x] >= 0

\* ------------------------------------------------------------------ C16
\* C16: for every capacity M >= 1 and every loop-free edge, an improved
\* process_edge call completes without raising an error.
C16_ImprNeverRaises ==
    [][ (variant = "impr" /\ M >= 1 /\ IsCall /\ last'.u # last'.v) =>
          last'.error = "none" ]_vars

\* ------------------------------------------------------------------ C17
RECURSIVE SumLocal(_)
SumLocal(S) ==
    IF S = {} THEN 0
    ELSE LET x == CHOOSE y \in S : TRUE IN local_triangles[x] + SumLocal(S \ {x})

\* C17: in both estimators the local counters always sum to 3 times the
\* global counter.
C17_LocalSumIsThreeGlobal ==
    SumLocal(Vertices) = 3 * global_triangles

\* Counters that are not zero, after a call that evicted an edge.
C17_Witness ==
    global_triangles > 0 /\ last.removed # None

====
